---------------------------- MODULE Spec2Model ----------------------------
(***************************************************************************)
(* A model of travel_ai_agent.py: the query router TravelAIAgent           *)
(* (handle_query), its two catalog lookups against PostgreSQL and its      *)
(* Gemini fallback, served by the Flask endpoint query_ai_endpoint.        *)
(*                                                                         *)
(* Text is modelled character by character: a Python str is a sequence of  *)
(* one-character strings, so lower(), strip(), startswith(), replace(),    *)
(* title() and join() are computed as Python computes them.                *)
(***************************************************************************)
EXTENDS Integers, Sequences, FiniteSets

(***************************************************************************)
(* Python str primitives used by handle_query.                             *)
(***************************************************************************)
LowerCase ==
    <<"a", "b", "c", "d", "e", "f", "g", "h", "i", "j", "k", "l", "m",
      "n", "o", "p", "q", "r", "s", "t", "u", "v", "w", "x", "y", "z">>

UpperCase ==
    <<"A", "B", "C", "D", "E", "F", "G", "H", "I", "J", "K", "L", "M",
      "N", "O", "P", "Q", "R", "S", "T", "U", "V", "W", "X", "Y", "Z">>

Digits == <<"0", "1", "2", "3", "4", "5", "6", "7", "8", "9">>

Whitespace == {" ", "\n", "\t"}

\* The lowercase of each uppercase letter and the uppercase of each lowercase
\* letter.
LowerOf ==
    [c \in {UpperCase[i] : i \in 1..Len(UpperCase)} |->
        LowerCase[CHOOSE i \in 1..Len(UpperCase) : UpperCase[i] = c]]

UpperOf ==
    [c \in {LowerCase[i] : i \in 1..Len(LowerCase)} |->
        UpperCase[CHOOSE i \in 1..Len(LowerCase) : LowerCase[i] = c]]

IsLower(c) == c \in DOMAIN UpperOf

IsUpper(c) == c \in DOMAIN LowerOf

IsCased(c) == IsLower(c) \/ IsUpper(c)

LowerChar(c) == IF IsUpper(c) THEN LowerOf[c] ELSE c

UpperChar(c) == IF IsLower(c) THEN UpperOf[c] ELSE c

\* str.lower(): every cased character lowercased, the rest kept.
lower(s) == [i \in 1..Len(s) |-> LowerChar(s[i])]

RECURSIVE lstrip(_)
lstrip(s) ==
    IF s # <<>> /\ Head(s) \in Whitespace THEN lstrip(Tail(s)) ELSE s

RECURSIVE rstrip(_)
rstrip(s) ==
    IF s # <<>> /\ s[Len(s)] \in Whitespace
    THEN rstrip(SubSeq(s, 1, Len(s) - 1))
    ELSE s

\* str.strip(): leading and trailing whitespace removed.
strip(s) == rstrip(lstrip(s))

\* str.startswith(prefix).
startswith(s, prefix) ==
    /\ Len(prefix) <= Len(s)
    /\ SubSeq(s, 1, Len(prefix)) = prefix

\* str.replace(old, ""): every non-overlapping occurrence of old, scanning
\* from the left, is removed.
RECURSIVE replace(_, _)
replace(s, old) ==
    IF Len(s) < Len(old) \/ old = <<>> THEN s
    ELSE IF startswith(s, old)
         THEN replace(SubSeq(s, Len(old) + 1, Len(s)), old)
         ELSE <<Head(s)>> \o replace(Tail(s), old)

\* str.title(): a cased character is uppercased when the character before it
\* is not cased (or there is none), and lowercased otherwise.
title(s) ==
    [i \in 1..Len(s) |->
        IF i > 1 /\ IsCased(s[i - 1]) THEN LowerChar(s[i]) ELSE UpperChar(s[i])]

\* sep.join(list).
RECURSIVE join(_, _)
join(sep, list) ==
    IF list = <<>> THEN <<>>
    ELSE IF Len(list) = 1 THEN list[1]
    ELSE list[1] \o sep \o join(sep, Tail(list))

\* The concatenation of a sequence of strings.
RECURSIVE Concat(_)
Concat(list) == IF list = <<>> THEN <<>> ELSE Head(list) \o Concat(Tail(list))

\* Whether sub occurs in s (Python's "sub in s").
Contains(s, sub) ==
    \E i \in 0..(Len(s) - Len(sub)) : SubSeq(s, i + 1, i + Len(sub)) = sub

\* A value is a str: a finite sequence of characters.
IsString(v) == v \in Seq(STRING)

(***************************************************************************)
(* String literals of the source, character by character.                  *)
(***************************************************************************)
\* The literals handle_query matches the normalised query against.
StrListCities ==
    <<"l", "i", "s", "t", " ", "c", "i", "t", "i", "e", "s">>

StrShowCities ==
    <<"s", "h", "o", "w", " ", "c", "i", "t", "i", "e", "s">>

StrHotelsIn ==
    <<"h", "o", "t", "e", "l", "s", " ", "i", "n", " ">>

StrFindHotelsIn ==
    <<"f", "i", "n", "d", " ", "h", "o", "t", "e", "l", "s", " ", "i", "n",
      " ">>

\* The literals of handle_query's responses.
MsgAvailableCities ==
    <<"A", "v", "a", "i", "l", "a", "b", "l", "e", " ", "c", "i", "t", "i",
      "e", "s", ":", " ">>

MsgCommaSpace ==
    <<",", " ">>

MsgNoCities ==
    <<"C", "o", "u", "l", "d", " ", "n", "o", "t", " ", "r", "e", "t", "r",
      "i", "e", "v", "e", " ", "c", "i", "t", "y", " ", "l", "i", "s", "t",
      " ", "f", "r", "o", "m", " ", "d", "a", "t", "a", "b", "a", "s", "e",
      ".", " ", "P", "l", "e", "a", "s", "e", " ", "e", "n", "s", "u", "r",
      "e", " ", "t", "h", "e", " ", "d", "a", "t", "a", "b", "a", "s", "e",
      " ", "i", "s", " ", "r", "u", "n", "n", "i", "n", "g", " ", "a", "n",
      "d", " ", "a", "c", "c", "e", "s", "s", "i", "b", "l", "e", ".">>

MsgHotelsInHeader ==
    <<"H", "o", "t", "e", "l", "s", " ", "i", "n", " ">>

MsgHotelsFoundInHeader ==
    <<"H", "o", "t", "e", "l", "s", " ", "f", "o", "u", "n", "d", " ", "i",
      "n", " ">>

MsgLineOpen ==
    <<"-", " ">>

MsgParenOpen ==
    <<" ", "(">>

MsgParenClose ==
    <<")", " ", "-", " ", "\n">>

MsgCheckIn ==
    <<"C", "h", "e", "c", "k", "-", "i", "n", ":", " ">>

MsgCheckOut ==
    <<",", " ", "C", "h", "e", "c", "k", "-", "o", "u", "t", ":", " ">>

MsgStatus ==
    <<" ", "S", "t", "a", "t", "u", "s", ":", " ">>

MsgBooked ==
    <<"B", "o", "o", "k", "e", "d">>

MsgAvailable ==
    <<"A", "v", "a", "i", "l", "a", "b", "l", "e">>

MsgNoHotelsHead ==
    <<"N", "o", " ", "h", "o", "t", "e", "l", "s", " ", "f", "o", "u", "n",
      "d", " ", "i", "n", " ">>

MsgNoHotelsTail ==
    <<" ", "i", "n", " ", "o", "u", "r", " ", "d", "a", "t", "a", "b", "a",
      "s", "e", ",", " ", "o", "r", " ", "a", "n", " ", "e", "r", "r", "o",
      "r", " ", "o", "c", "c", "u", "r", "r", "e", "d", ".">>

\* The literals of _query_gemini.
MsgAIUnavailable ==
    <<"A", "I", " ", "f", "u", "n", "c", "t", "i", "o", "n", "a", "l", "i",
      "t", "y", " ", "i", "s", " ", "n", "o", "t", " ", "a", "v", "a", "i",
      "l", "a", "b", "l", "e", " ", "d", "u", "e", " ", "t", "o", " ", "m",
      "i", "s", "s", "i", "n", "g", " ", "o", "r", " ", "i", "n", "v", "a",
      "l", "i", "d", " ", "A", "P", "I", " ", "k", "e", "y", ".">>

MsgAIInvalid ==
    <<"G", "e", "m", "i", "n", "i", " ", "A", "I", " ", "d", "i", "d", " ",
      "n", "o", "t", " ", "r", "e", "t", "u", "r", "n", " ", "a", " ", "v",
      "a", "l", "i", "d", " ", "r", "e", "s", "p", "o", "n", "s", "e", ".">>

MsgAIErrorHead ==
    <<"E", "r", "r", "o", "r", " ", "c", "o", "m", "m", "u", "n", "i", "c",
      "a", "t", "i", "n", "g", " ", "w", "i", "t", "h", " ", "A", "I", ":",
      " ">>

GeminiContext ==
    <<"Y", "o", "u", " ", "a", "r", "e", " ", "a", " ", "t", "r", "a", "v",
      "e", "l", " ", "a", "g", "e", "n", "t", ".", " ", "O", "n", "l", "y",
      " ", "a", "n", "s", "w", "e", "r", " ", "q", "u", "e", "s", "t", "i",
      "o", "n", "s", " ", "a", "b", "o", "u", "t", " ", "c", "o", "u", "n",
      "t", "r", "y", ",", " ", "s", "t", "a", "t", "e", ",", " ", "c", "i",
      "t", "i", "e", "s", ",", " ", "p", "l", "a", "c", "e", "s", " ", "i",
      "n", " ", "c", "i", "t", "i", "e", "s", " ", "a", "n", "d", " ", "w",
      "h", "a", "t", " ", "i", "t", " ", "i", "s", " ", "l", "i", "k", "e",
      " ", "t", "o", " ", "v", "i", "s", "i", "t", " ", "t", "h", "e", "r",
      "e", " ", "o", "r", " ", "f", "a", "m", "o", "u", "s", " ", "f", "o",
      "r", ",", " ", "h", "o", "t", "e", "l", "s", "/", "r", "e", "s", "o",
      "r", "t", "s", "/", "s", "t", "a", "y", "s", ",", " ", "t", "r", "a",
      "v", "e", "l", " ", "p", "l", "a", "n", "n", "i", "n", "g", ",", " ",
      "p", "r", "i", "c", "e", " ", "d", "e", "t", "a", "i", "l", "s", " ",
      "a", "n", "d", " ", "t", "r", "a", "v", "e", "l", " ", "r", "e", "l",
      "a", "t", "e", "d", " ", "d", "e", "t", "a", "i", "l", "s", " ", "o",
      "f", " ", "c", "o", "u", "n", "t", "r", "y", ".", " ", "I", "f", " ",
      "a", " ", "q", "u", "e", "s", "t", "i", "o", "n", " ", "i", "s", " ",
      "o", "u", "t", "s", "i", "d", "e", " ", "o", "f", " ", "t", "h", "i",
      "s", " ", "c", "o", "n", "t", "e", "x", "t", ",", " ", "r", "e", "s",
      "p", "o", "n", "d", " ", "w", "i", "t", "h", ":", " ", "'", "H", "i",
      ",", " ", "I", "'", "m", " ", "a", "n", " ", "t", "r", "a", "v", "e",
      "l", " ", "A", "g", "e", "n", "t", " ", "a", "n", "d", " ", "a", "s",
      "k", " ", "m", "e", " ", "q", "u", "e", "s", "t", "i", "o", "n", " ",
      "o", "n", "l", "y", " ", "a", "b", "o", "u", "t", " ", "t", "r", "a",
      "v", "e", "l", "/", "c", "o", "u", "n", "t", "r", "y", "/", "s", "t",
      "a", "t", "e", "/", "c", "i", "t", "y", "/", "s", "t", "a", "y", "/",
      "t", "r", "a", "v", "e", "l", " ", "p", "l", "a", "n", "n", "i", "n",
      "g", " ", "r", "e", "l", "a", "t", "e", "d", " ", "d", "e", "t", "a",
      "i", "l", "s", ".", " ", "T", "h", "a", "n", "k", " ", "y", "o", "u",
      "!", "'">>

MsgUserQuery ==
    <<"\n", "\n", "U", "s", "e", "r", " ", "q", "u", "e", "r", "y", ":", " ">>

\* str(None).
StrNone ==
    <<"N", "o", "n", "e", "\n">>

(***************************************************************************)
(* Bounds of the model.                                                    *)
(***************************************************************************)
\* A query text is made of at most MaxPieces pieces of Pieces.
MaxPieces == 2

\* The hotels table holds the first 0..MaxRows rows of Catalog.
MaxRows == 3

\* Requests served at the same time by the threaded Flask server.
MaxRequests == 2

(***************************************************************************)
(* The hotels table (DB_CONFIG's travel_db): name, location, price_tier,   *)
(* checkin_date, checkout_date, booked.  A date column value is a date     *)
(* object, a text value or NULL.                                           *)
(***************************************************************************)
DateValue(y, m, d) == [type |-> "date", y |-> y, m |-> m, d |-> d]

TextValue(s) == [type |-> "str", s |-> s]

NullValue == [type |-> "none"]

Catalog ==
    << [name |-> <<"L", "a", "k", "e", "v", "i", "e", "w">>,
        location |-> <<"R", "o", "m", "e">>,
        price_tier |-> <<"m", "i", "d">>,
        checkin_date |-> DateValue(2024, 5, 1),
        checkout_date |-> DateValue(2024, 5, 3),
        booked |-> TRUE],
       [name |-> <<"A", "l", "p", "i", "n", "a">>,
        location |-> <<"B", "e", "r", "n">>,
        price_tier |-> <<"l", "o", "w">>,
        checkin_date |-> DateValue(2024, 12, 24),
        checkout_date |-> DateValue(2025, 1, 2),
        booked |-> FALSE],
       [name |-> <<"F", "o", "r", "u", "m">>,
        location |-> <<"R", "o", "m", "e">>,
        price_tier |-> <<"l", "u", "x">>,
        checkin_date |-> TextValue(<<"s", "o", "o", "n">>),
        checkout_date |-> NullValue,
        booked |-> FALSE],
       [name |-> <<"C", "a", "s", "a">>,
        location |-> <<"r", "o", "m", "e">>,
        price_tier |-> <<"m", "i", "d">>,
        checkin_date |-> DateValue(2023, 10, 9),
        checkout_date |-> DateValue(2023, 10, 11),
        booked |-> TRUE] >>

Min(a, b) == IF a <= b THEN a ELSE b

Stores == {SubSeq(Catalog, 1, k) : k \in 0..Min(MaxRows, Len(Catalog))}

(***************************************************************************)
(* What the two SQL statements return.                                     *)
(***************************************************************************)
\* The rank of a character in the byte order the locations are sorted by.
CharRank(c) ==
    IF IsUpper(c) THEN CHOOSE i \in 1..Len(UpperCase) : UpperCase[i] = c
    ELSE IF IsLower(c)
    THEN Len(UpperCase) + (CHOOSE i \in 1..Len(LowerCase) : LowerCase[i] = c)
    ELSE 0

RECURSIVE StrLessEq(_, _)
StrLessEq(s, t) ==
    IF s = <<>> THEN TRUE
    ELSE IF t = <<>> THEN FALSE
    ELSE IF CharRank(Head(s)) # CharRank(Head(t))
         THEN CharRank(Head(s)) < CharRank(Head(t))
         ELSE StrLessEq(Tail(s), Tail(t))

RECURSIVE SortAscending(_)
SortAscending(S) ==
    IF S = {} THEN <<>>
    ELSE LET least == CHOOSE x \in S : \A y \in S : StrLessEq(x, y)
         IN  <<least>> \o SortAscending(S \ {least})

\* SELECT DISTINCT location FROM hotels ORDER BY location;
SelectDistinctLocations(table) ==
    SortAscending({table[i].location : i \in DOMAIN table})

\* SELECT ... FROM hotels WHERE LOWER(location) = LOWER(%s);
SelectHotelsByLocation(table, location) ==
    LET Matches(row) == lower(row.location) = lower(location)
    IN  SelectSeq(table, Matches)

(***************************************************************************)
(* Row shaping of _get_hotels_by_location_from_db.                         *)
(***************************************************************************)
\* An integer as decimal digits, zero-padded to width characters.
RECURSIVE ZeroPad(_, _)
ZeroPad(n, width) ==
    IF width = 0 THEN <<>>
    ELSE ZeroPad(n \div 10, width - 1) \o <<Digits[(n % 10) + 1]>>

\* value.strftime("%Y-%m-%d") if isinstance(value, date) else str(value)
DateToStr(value) ==
    IF value.type = "date"
    THEN ZeroPad(value.y, 4) \o <<"-">> \o ZeroPad(value.m, 2)
         \o <<"-">> \o ZeroPad(value.d, 2)
    ELSE IF value.type = "str" THEN value.s
    ELSE StrNone

ShapeHotel(row) ==
    [name |-> row.name,
     location |-> row.location,
     price_tier |-> row.price_tier,
     checkin_date |-> DateToStr(row.checkin_date),
     checkout_date |-> DateToStr(row.checkout_date),
     booked |-> row.booked]

(***************************************************************************)
(* Outcomes of the collaborators.                                          *)
(***************************************************************************)
\* psycopg2.connect: a connection, or psycopg2.Error.
ConnectOutcomes == {"ok", "error"}

\* cursor, execute and the iteration over the cursor: all rows read, or
\* psycopg2.Error raised by execute, or raised while reading after k rows.
QueryOutcomes(resultset) ==
    {[kind |-> "ok"], [kind |-> "execute_error"]}
        \cup {[kind |-> "fetch_error", k |-> k] : k \in 1..Len(resultset)}

\* The rows the loop has appended to the list when the try block is left.
AppendedRows(resultset, outcome) ==
    IF outcome.kind = "ok" THEN resultset
    ELSE IF outcome.kind = "fetch_error" THEN SubSeq(resultset, 1, outcome.k)
    ELSE <<>>

\* Texts the generative model answers with, and the texts of its exceptions.
AITexts ==
    { <<" ", "H", "i", "!", "\n">>, MsgAIUnavailable }

ErrorDetails ==
    { <<"t", "i", "m", "e", "o", "u", "t">>, <<"4", "2", "9">> }

\* generate_content: a response with text, a response without candidates or
\* parts, or an exception.
AIOutcomes ==
    {[kind |-> "text", text |-> t] : t \in AITexts}
        \cup {[kind |-> "invalid"]}
        \cup {[kind |-> "error", detail |-> d] : d \in ErrorDetails}

NoOutcome == [kind |-> "none"]

(***************************************************************************)
(* Query texts posted to /query_ai.                                        *)
(***************************************************************************)
Pieces ==
    << StrListCities,
       <<" ", "S", "h", "o", "w", " ", "C", "i", "t", "i", "e", "s", " ">>,
       StrHotelsIn,
       <<"F", "i", "n", "d", " ", "H", "o", "t", "e", "l", "s", " ", "I", "n",
         " ">>,
       <<"r", "o", "m", "e">>,
       <<"H", "O", "T", "E", "L", "S", " ", "i", "n", " ", "B", "e", "r", "n">>,
       <<"n", "e", "w", " ", "y", "o", "r", "k">> >>

Queries ==
    UNION { {Concat([i \in 1..n |-> Pieces[f[i]]]) : f \in [1..n -> DOMAIN Pieces]}
            : n \in 1..MaxPieces }

\* The query texts of the concurrent requests: a city list, a hotel lookup
\* and a fallback text.
ConcurrentQueries == { Pieces[1], Pieces[4] \o Pieces[5], Pieces[5] }

(***************************************************************************)
(* handle_query, as pure steps.                                            *)
(***************************************************************************)
\* Normalize without the strip().
NormalizeUnstripped(user_query) == lower(user_query)

\* user_query.lower().strip()
Normalize(user_query) == strip(lower(user_query))

\* The branch of the if/elif chain that is taken: 1 the city list, 2 the
\* "hotels in " branch, 3 the "find hotels in " branch, 4 the fallback.
Branch(user_query_lower) ==
    IF user_query_lower = StrListCities \/ user_query_lower = StrShowCities
    THEN 1
    ELSE IF startswith(user_query_lower, StrHotelsIn) THEN 2
    ELSE IF startswith(user_query_lower, StrFindHotelsIn) THEN 3
    ELSE 4

\* user_query_lower.replace(prefix, "").strip()
ExtractLocation(user_query_lower, prefix) ==
    strip(replace(user_query_lower, prefix))

\* The location of the branch taken (branches 1 and 4 set none).
LocationOf(user_query_lower) ==
    IF Branch(user_query_lower) = 2
    THEN ExtractLocation(user_query_lower, StrHotelsIn)
    ELSE IF Branch(user_query_lower) = 3
    THEN ExtractLocation(user_query_lower, StrFindHotelsIn)
    ELSE <<>>

\* The statement a lookup executes, as the rows it yields on the table.
ResultSet(table, branch, location) ==
    IF branch = 1 THEN SelectDistinctLocations(table)
    ELSE SelectHotelsByLocation(table, location)

\* The list a lookup returns: row[0] of each row read for the cities, the
\* shaped dict of each row read for the hotels.
LookupResult(branch, resultset, outcome) ==
    LET read == AppendedRows(resultset, outcome)
    IN  IF branch = 1 THEN read
        ELSE [i \in 1..Len(read) |-> ShapeHotel(read[i])]

\* The response of the city list branch.
CitiesResponse(cities) ==
    IF cities # <<>>
    THEN MsgAvailableCities \o join(MsgCommaSpace, cities) \o <<".">>
    ELSE MsgNoCities

\* One line of the hotel listing.
HotelLine(hotel) ==
    MsgLineOpen \o hotel.name \o MsgParenOpen \o hotel.price_tier
        \o MsgParenClose \o MsgCheckIn \o hotel.checkin_date
        \o MsgCheckOut \o hotel.checkout_date \o MsgStatus
        \o (IF hotel.booked THEN MsgBooked ELSE MsgAvailable) \o <<"\n">>

\* HotelsResponse with "no hotels" message for both hotel branches but
\* the location left as typed.
HotelsResponseUntitled(header, location, hotels) ==
    IF hotels # <<>>
    THEN strip(header \o title(location) \o <<":", "\n">>
               \o Concat([i \in 1..Len(hotels) |-> HotelLine(hotels[i])]))
    ELSE MsgNoHotelsHead \o location \o MsgNoHotelsTail

\* The response of a hotel branch, whose header is "Hotels in " or
\* "Hotels found in ".
HotelsResponse(header, location, hotels) ==
    IF hotels # <<>>
    THEN strip(header \o title(location) \o <<":", "\n">>
               \o Concat([i \in 1..Len(hotels) |-> HotelLine(hotels[i])]))
    ELSE MsgNoHotelsHead \o title(location) \o MsgNoHotelsTail

\* What handle_query returns once the lookup has returned list.
LookupResponse(branch, location, list) ==
    IF branch = 1 THEN CitiesResponse(list)
    ELSE IF branch = 2 THEN HotelsResponse(MsgHotelsInHeader, location, list)
    ELSE HotelsResponse(MsgHotelsFoundInHeader, location, list)

\* get_db_connection without its try/except: psycopg2.Error leaves it.
get_db_connection_unguarded(outcome) ==
    IF outcome = "ok"
    THEN [kind |-> "return", connected |-> TRUE]
    ELSE [kind |-> "raise", connected |-> FALSE]

\* get_db_connection: the connection, or None when connect raised
\* psycopg2.Error.
get_db_connection(outcome) ==
    IF outcome = "ok"
    THEN [kind |-> "return", connected |-> TRUE]
    ELSE [kind |-> "return", connected |-> FALSE]

\* A lookup that asks for a connection again when it got none.
AfterConnectRetrying(connected) == IF connected THEN "execute" ELSE "connect"

\* Where a lookup goes after get_db_connection returned: into the try block
\* with a connection, straight to its return without one.
AfterConnect(connected) == IF connected THEN "execute" ELSE "format"

\* conn.close() as the last statement of the try block instead of a finally.
AfterCloseInTry(open, c, outcome) ==
    IF outcome.kind = "ok" THEN open \ {c} ELSE open

\* finally: conn.close(), whatever left the try block.
AfterClose(open, c, outcome) == open \ {c}

\* The fallback handed the normalised text.
FallbackPromptLowered(user_query, user_query_lower) == user_query_lower

\* The prompt handle_query hands to _query_gemini.
FallbackPrompt(user_query, user_query_lower) == user_query

\* _query_gemini without its check of self.model.
CallsModelUnchecked(mdl) == TRUE

\* if not self.model: whether _query_gemini goes on to call the model.
CallsModel(mdl) == mdl # "None"

\* What _query_gemini returns for an outcome of generate_content.
GeminiResponse(outcome) ==
    IF outcome.kind = "text" THEN outcome.text
    ELSE IF outcome.kind = "invalid" THEN MsgAIInvalid
    ELSE MsgAIErrorHead \o outcome.detail

\* The locals kept on the one shared agent instead of in the call's frame.
SlotOnAgent(r) == 1

\* The frame holding the local variables of request r's handle_query call:
\* every call has its own.
Slot(r) == r

\* handle_query run alone: its response as a function of the query text, the
\* collaborator outcomes it meets, the table and the agent's model.
HandleQueryAlone(q, outcomes, table, mdl) ==
    LET n == Normalize(q)
        b == Branch(n)
        loc == LocationOf(n)
    IN  IF b = 4
        THEN IF CallsModel(mdl) THEN GeminiResponse(outcomes.ai)
                                ELSE MsgAIUnavailable
        ELSE LookupResponse(b, loc,
                 IF get_db_connection(outcomes.connect).connected
                 THEN LookupResult(b, ResultSet(table, b, loc), outcomes.query)
                 ELSE <<>>)

(***************************************************************************)
(* The state.                                                              *)
(***************************************************************************)
VARIABLES
    store,            \* the rows of the hotels table
    model,            \* agent_instance.model: "GenerativeModel" or "None"
    openConns,        \* the connections open at the database
    pc,               \* where each request stands
    user_query,       \* handle_query's locals, per frame
    user_query_lower,
    branch,
    location,
    conn,             \* the connection of the running lookup, 0 for None
    list,             \* cities or hotels of the running lookup
    prompt,           \* _query_gemini's prompt
    response,         \* what handle_query returned to the endpoint
    calls,            \* per request: the collaborator calls it has made
    seen,             \* per request: the collaborator outcomes it has met
    sent,             \* per request: prompt_with_context given to the model
    pre,              \* per request: the text asked and the shared state then
    last              \* the previous call, while the same text is asked again

vars ==
    <<store, model, openConns, pc, user_query, user_query_lower, branch,
      location, conn, list, prompt, response, calls, seen, sent, pre, last>>

Requests == 1..MaxRequests

NoCalls ==
    [connect |-> 0, execute |-> 0, close |-> 0, gemini |-> 0, generate |-> 0,
     usedConn |-> {}]

NoneSeen == [connect |-> "none", query |-> NoOutcome, ai |-> NoOutcome]

NoCall == [query |-> <<>>, seen |-> NoneSeen, response |-> <<>>]

Shared == [store |-> store, model |-> model]

NotBegun == [query |-> <<>>, shared |-> Shared]

Init ==
    /\ store \in Stores
    /\ model \in {"GenerativeModel", "None"}
    /\ openConns = {}
    /\ pc = [r \in Requests |-> "idle"]
    /\ user_query = [r \in Requests |-> <<>>]
    /\ user_query_lower = [r \in Requests |-> <<>>]
    /\ branch = [r \in Requests |-> 0]
    /\ location = [r \in Requests |-> <<>>]
    /\ conn = [r \in Requests |-> 0]
    /\ list = [r \in Requests |-> <<>>]
    /\ prompt = [r \in Requests |-> <<>>]
    /\ response = [r \in Requests |-> <<>>]
    /\ calls = [r \in Requests |-> NoCalls]
    /\ seen = [r \in Requests |-> NoneSeen]
    /\ sent = [r \in Requests |-> <<>>]
    /\ pre = [r \in Requests |-> NotBegun]
    /\ last = NoCall

(***************************************************************************)
(* The steps of one request.                                               *)
(***************************************************************************)
\* query_ai_endpoint takes a non-empty query and calls handle_query, which
\* normalises the text and takes a branch.  While a call is remembered in
\* last, the text asked is that call's.
Receive(r, q) ==
    /\ pc[r] = "idle"
    /\ q # <<>>
    /\ last = NoCall \/ last.query = q
    /\ user_query' = [user_query EXCEPT ![Slot(r)] = q]
    /\ user_query_lower' = [user_query_lower EXCEPT ![Slot(r)] = Normalize(q)]
    /\ branch' = [branch EXCEPT ![Slot(r)] = Branch(Normalize(q))]
    /\ location' = [location EXCEPT ![Slot(r)] = LocationOf(Normalize(q))]
    /\ conn' = [conn EXCEPT ![Slot(r)] = 0]
    /\ list' = [list EXCEPT ![Slot(r)] = <<>>]
    /\ prompt' = [prompt EXCEPT ![Slot(r)] = <<>>]
    /\ pc' = [pc EXCEPT ![r] = IF Branch(Normalize(q)) = 4 THEN "gemini"
                                                            ELSE "connect"]
    /\ response' = [response EXCEPT ![r] = <<>>]
    /\ calls' = [calls EXCEPT ![r] = NoCalls]
    /\ seen' = [seen EXCEPT ![r] = NoneSeen]
    /\ sent' = [sent EXCEPT ![r] = <<>>]
    /\ pre' = [pre EXCEPT ![r] = [query |-> q, shared |-> Shared]]
    /\ UNCHANGED <<store, model, openConns, last>>

\* _get_cities_from_db / _get_hotels_by_location_from_db: conn =
\* get_db_connection(); if conn: ...
Connect(r) ==
    /\ pc[r] = "connect"
    /\ \E outcome \in ConnectOutcomes :
         LET got == get_db_connection(outcome)
         IN  /\ calls' = [calls EXCEPT ![r].connect = @ + 1]
             /\ seen' = [seen EXCEPT ![r].connect = outcome]
             /\ IF got.kind = "raise"
                THEN /\ pc' = [pc EXCEPT ![r] = "raised"]
                     /\ UNCHANGED <<conn, openConns>>
                ELSE /\ pc' = [pc EXCEPT ![r] = AfterConnect(got.connected)]
                     /\ conn' = [conn EXCEPT ![Slot(r)] =
                                    IF got.connected THEN r ELSE 0]
                     /\ openConns' = IF got.connected THEN openConns \cup {r}
                                                      ELSE openConns
    /\ UNCHANGED <<store, model, user_query, user_query_lower, branch,
                   location, list, prompt, response, sent, pre, last>>

\* The try block: the statement is executed on the connection and its rows
\* are read into the list; psycopg2.Error is caught and logged.
Execute(r) ==
    /\ pc[r] = "execute"
    /\ LET resultset == ResultSet(store, branch[Slot(r)], location[Slot(r)])
       IN  \E outcome \in QueryOutcomes(resultset) :
             /\ list' = [list EXCEPT ![Slot(r)] =
                            LookupResult(branch[Slot(r)], resultset, outcome)]
             /\ seen' = [seen EXCEPT ![r].query = outcome]
    /\ calls' = [calls EXCEPT ![r].execute = @ + 1,
                              ![r].usedConn = @ \cup {conn[Slot(r)]}]
    /\ pc' = [pc EXCEPT ![r] = "close"]
    /\ UNCHANGED <<store, model, openConns, user_query, user_query_lower,
                   branch, location, conn, prompt, response, sent, pre, last>>

\* finally: conn.close()
Close(r) ==
    /\ pc[r] = "close"
    /\ openConns' = AfterClose(openConns, conn[Slot(r)], seen[r].query)
    /\ calls' = [calls EXCEPT ![r].close = @ + 1]
    /\ pc' = [pc EXCEPT ![r] = "format"]
    /\ UNCHANGED <<store, model, user_query, user_query_lower, branch,
                   location, conn, list, prompt, response, seen, sent, pre,
                   last>>

\* The lookup returns its list and handle_query returns the response.
Return(r) ==
    /\ pc[r] = "format"
    /\ response' = [response EXCEPT ![r] =
                       LookupResponse(branch[Slot(r)], location[Slot(r)],
                                      list[Slot(r)])]
    /\ pc' = [pc EXCEPT ![r] = "done"]
    /\ UNCHANGED <<store, model, openConns, user_query, user_query_lower,
                   branch, location, conn, list, prompt, calls, seen, sent,
                   pre, last>>

\* The fallback: handle_query calls _query_gemini, which returns at once
\* when the agent has no model.
QueryGemini(r) ==
    /\ pc[r] = "gemini"
    /\ prompt' = [prompt EXCEPT ![Slot(r)] =
                     FallbackPrompt(user_query[Slot(r)],
                                    user_query_lower[Slot(r)])]
    /\ calls' = [calls EXCEPT ![r].gemini = @ + 1]
    /\ IF CallsModel(model)
       THEN /\ pc' = [pc EXCEPT ![r] = "generate"]
            /\ UNCHANGED response
       ELSE /\ pc' = [pc EXCEPT ![r] = "done"]
            /\ response' = [response EXCEPT ![r] = MsgAIUnavailable]
    /\ UNCHANGED <<store, model, openConns, user_query, user_query_lower,
                   branch, location, conn, list, seen, sent, pre, last>>

\* self.model.generate_content(prompt_with_context) and what _query_gemini
\* makes of its outcome; any Exception is caught.
GenerateContent(r) ==
    /\ pc[r] = "generate"
    /\ sent' = [sent EXCEPT ![r] =
                   GeminiContext \o MsgUserQuery \o prompt[Slot(r)]]
    /\ calls' = [calls EXCEPT ![r].generate = @ + 1]
    /\ \E outcome \in AIOutcomes :
         /\ seen' = [seen EXCEPT ![r].ai = outcome]
         /\ response' = [response EXCEPT ![r] = GeminiResponse(outcome)]
    /\ pc' = [pc EXCEPT ![r] = "done"]
    /\ UNCHANGED <<store, model, openConns, user_query, user_query_lower,
                   branch, location, conn, list, prompt, pre, last>>

\* query_ai_endpoint returns the response as JSON; the request is over and
\* the locals of its handle_query call are gone.  The
\* call is remembered in last when the same text is about to be asked again.
Respond(r) ==
    /\ pc[r] = "done"
    /\ \E again \in BOOLEAN :
         last' = IF again
                 THEN [query |-> user_query[Slot(r)], seen |-> seen[r],
                       response |-> response[r]]
                 ELSE NoCall
    /\ pc' = [pc EXCEPT ![r] = "idle"]
    /\ user_query' = [user_query EXCEPT ![Slot(r)] = <<>>]
    /\ user_query_lower' = [user_query_lower EXCEPT ![Slot(r)] = <<>>]
    /\ branch' = [branch EXCEPT ![Slot(r)] = 0]
    /\ location' = [location EXCEPT ![Slot(r)] = <<>>]
    /\ conn' = [conn EXCEPT ![Slot(r)] = 0]
    /\ list' = [list EXCEPT ![Slot(r)] = <<>>]
    /\ prompt' = [prompt EXCEPT ![Slot(r)] = <<>>]
    /\ response' = [response EXCEPT ![r] = <<>>]
    /\ calls' = [calls EXCEPT ![r] = NoCalls]
    /\ seen' = [seen EXCEPT ![r] = NoneSeen]
    /\ sent' = [sent EXCEPT ![r] = <<>>]
    /\ pre' = [pre EXCEPT ![r] = NotBegun]
    /\ UNCHANGED <<store, model, openConns>>

(***************************************************************************)
(* Spec: one request after the other, any query text.                      *)
(* ConcurrentSpec: MaxRequests requests at once on the one agent.          *)
(***************************************************************************)
Next ==
    \/ \E q \in Queries : Receive(1, q)
    \/ Connect(1)
    \/ Execute(1)
    \/ Close(1)
    \/ Return(1)
    \/ QueryGemini(1)
    \/ GenerateContent(1)
    \/ Respond(1)

Spec == Init /\ [][Next]_vars

ConcurrentNext ==
    \E r \in Requests :
        \/ \E q \in ConcurrentQueries : Receive(r, q)
        \/ Connect(r)
        \/ Execute(r)
        \/ Close(r)
        \/ Return(r)
        \/ QueryGemini(r)
        \/ GenerateContent(r)

\* The concurrent requests run against a table of two hotels.
ConcurrentInit ==
    /\ Init
    /\ store = SubSeq(Catalog, 1, 2)

ConcurrentSpec == ConcurrentInit /\ [][ConcurrentNext]_vars

(***************************************************************************)
(* The properties.                                                         *)
(***************************************************************************)
\* Request r is inside handle_query or has its response.
Begun(r) == pc[r] # "idle"

\* The lookup of request r has returned to handle_query.
LookupReturned(r) == pc[r] \in {"format", "done"} /\ branch[Slot(r)] \in 1..3

\* The rules of the classification, in order, for a normalised text n.
Rules(n) ==
    << n = StrListCities \/ n = StrShowCities,
       startswith(n, StrHotelsIn),
       startswith(n, StrFindHotelsIn),
       TRUE >>

FirstMatch(n) ==
    CHOOSE i \in 1..4 : Rules(n)[i] /\ \A j \in 1..(i - 1) : ~Rules(n)[j]

\* C1: the branch handle_query takes for a query text is the first rule, in
\* the order city list, "hotels in ", "find hotels in ", fallback, that the
\* lowercased and trimmed text matches; the request then works on that
\* branch alone: a lookup branch makes no fallback call and the fallback
\* makes no lookup.
C1_FirstMatchingRule ==
    \A r \in Requests :
        Begun(r) =>
            /\ branch[Slot(r)] = FirstMatch(strip(lower(user_query[Slot(r)])))
            /\ branch[Slot(r)] = 4 => calls[r].connect = 0 /\ pc[r] # "connect"
            /\ branch[Slot(r)] # 4 => calls[r].gemini = 0 /\ pc[r] # "gemini"

\* A query with capitals and outer blanks has been answered on the
\* "find hotels in " branch.
C1_Witness ==
    /\ pc[1] = "done"
    /\ branch[Slot(1)] = 3
    /\ user_query[Slot(1)] # lower(user_query[Slot(1)])
    /\ lower(user_query[Slot(1)]) # user_query_lower[Slot(1)]

C3_ConnectionScopedPerCall ==
    /\ \A r \in Requests :
           /\ calls[r].connect <= 1 /\ calls[r].execute <= 1
           /\ r \in openConns => pc[r] \in {"execute", "close"}
           /\ LookupReturned(r) =>
                  /\ r \notin openConns
                  /\ seen[r].connect = "ok" =>
                         calls[r].execute = 1 /\ calls[r].close = 1
                  /\ seen[r].connect = "error" =>
                         calls[r].execute = 0 /\ conn[Slot(r)] = 0
    /\ (\A r \in Requests : pc[r] \in {"idle", "done"}) => openConns = {}

\* A lookup has returned after its statement failed while rows were read.
C3_Witness ==
    /\ pc[1] = "done"
    /\ seen[1].query.kind = "fetch_error"
    /\ calls[1].close = 1
    /\ openConns = {}

\* A step of request r inside handle_query.
InsideHandleQuery(r) ==
    \/ Connect(r)
    \/ Execute(r)
    \/ Close(r)
    \/ Return(r)
    \/ QueryGemini(r)
    \/ GenerateContent(r)

NoHotelsMessage(loc) == MsgNoHotelsHead \o title(loc) \o MsgNoHotelsTail

RemainderAfter(n, prefix) == strip(SubSeq(n, Len(prefix) + 1, Len(n)))

\* C6: on the "hotels in " branch the location is the normalised text after
\* that leading prefix, trimmed and otherwise intact, and likewise on the
\* "find hotels in " branch.
C6_LocationIsRemainderAfterPrefix ==
    \A r \in Requests :
        Begun(r) =>
            /\ branch[Slot(r)] = 2 =>
                   location[Slot(r)] =
                       RemainderAfter(user_query_lower[Slot(r)], StrHotelsIn)
            /\ branch[Slot(r)] = 3 =>
                   location[Slot(r)] =
                       RemainderAfter(user_query_lower[Slot(r)],
                                      StrFindHotelsIn)

\* A response is the message of a failed model call.
IsErrorMessage(s) == startswith(s, MsgAIErrorHead)

\* What C7 says of the two failure cases themselves: without a model the
\* model is not called and the fixed message is returned; a failed call
\* returns a message containing the failure's text; the two differ.
FailureCasesDistinguished(r) ==
    /\ model = "None" =>
           calls[r].generate = 0 /\ response[r] = MsgAIUnavailable
    /\ seen[r].ai.kind = "error" =>
           /\ model # "None"
           /\ IsErrorMessage(response[r])
           /\ Contains(response[r], seen[r].ai.detail)
           /\ response[r] # MsgAIUnavailable

\* C7 as stated: the failure cases are distinguished, and neither failure
\* message is returned for a successful call.
C7_FailureMessagesNeverOnSuccess ==
    \A r \in Requests :
        pc[r] = "done" /\ branch[Slot(r)] = 4 =>
            /\ FailureCasesDistinguished(r)
            /\ seen[r].ai.kind = "text" =>
                   response[r] # MsgAIUnavailable /\ ~IsErrorMessage(response[r])

\* C7 as amended: the failure cases are distinguished, and a successful call
\* returns a failure message only when the model's own text is that message.
C7_FailureCasesDistinguished ==
    \A r \in Requests :
        pc[r] = "done" /\ branch[Slot(r)] = 4 =>
            /\ FailureCasesDistinguished(r)
            /\ seen[r].ai.kind = "text"
                 /\ seen[r].ai.text # MsgAIUnavailable
                 /\ ~IsErrorMessage(seen[r].ai.text) =>
                   response[r] # MsgAIUnavailable /\ ~IsErrorMessage(response[r])

\* A configured model has failed and the response carries the failure's text.
C7_Witness ==
    /\ pc[1] = "done"
    /\ branch[Slot(1)] = 4
    /\ model = "GenerativeModel"
    /\ seen[1].ai.kind = "error"
    /\ response[1] = MsgAIErrorHead \o seen[1].ai.detail

\* Request 1 has answered the text of the call before it.
AskedAgain == pc[1] = "done" /\ last # NoCall /\ last.query = pre[1].query

\* The call left the agent, the table and the connections as they were.
LeavesNoState(r) ==
    /\ Shared = pre[r].shared
    /\ r \notin openConns

C9_OneLookupNoRetry ==
    \A r \in Requests :
        Begun(r) /\ branch[Slot(r)] \in 1..3 =>
            /\ calls[r].connect <= 1
            /\ calls[r].execute <= 1
            /\ calls[r].gemini = 0 /\ calls[r].generate = 0
            /\ LookupReturned(r) => calls[r].connect = 1
            /\ seen[r].connect = "error" => calls[r].execute = 0
            /\ seen[r].query.kind # "none" => calls[r].execute = 1

\* The city list has been answered after its one statement failed.
C9_Witness ==
    /\ pc[1] = "done"
    /\ branch[Slot(1)] = 1
    /\ seen[1].query.kind = "execute_error"
    /\ calls[1].connect = 1
    /\ calls[1].execute = 1

\* C10: with requests interleaved on the one agent, a request runs its
\* statement on no connection but its own, the agent and the table stay as
\* they were when it began, and what it returns is what handle_query alone
\* returns for its text and the outcomes it met.
C10_ConcurrentRequestsIndependent ==
    \A r \in Requests :
        /\ calls[r].usedConn \subseteq {r}
        /\ Begun(r) => Shared = pre[r].shared
        /\ pc[r] = "format" =>
               LookupResponse(branch[Slot(r)], location[Slot(r)],
                              list[Slot(r)])
                   = HandleQueryAlone(pre[r].query, seen[r], store, model)
        /\ pc[r] = "done" =>
               response[r]
                   = HandleQueryAlone(pre[r].query, seen[r], store, model)

\* Two requests with different texts are inside handle_query at once, each
\* with its lookup's list in hand, one of them after a failure.
C10_Witness ==
    /\ pc[1] = "format"
    /\ pc[2] = "format"
    /\ pre[1].query # pre[2].query
    /\ calls[1].usedConn = {1}
    /\ calls[2].usedConn = {2}
    /\ seen[1].query.kind = "ok"
    /\ seen[2].query.kind = "fetch_error"

=============================================================================
